---- MODULE Spec2Model ----
(***************************************************************************)
(* Model of chromium/scripts/generate_gn.py: the SourceSet algebra, the    *)
(* pairwise-disjoint decomposition, the wildcard expansion of conditions   *)
(* and the reduction of a SourceSet's conditional logic.                   *)
(***************************************************************************)
EXTENDS Integers, Sequences, FiniteSets, TLC

VARIABLES
  sets,               \* main: the list handed to CreatePairwiseDisjointSets
  disjoint_sets,      \* CreatePairwiseDisjointSets: the working list; main iterates it afterwards
  pc,                 \* position of the program
  idx,                \* main: index of the source_set being reduced
  reduced_conditions, \* ReduceConditionalLogic: the set of ConditionReduction
  pass,               \* how many times ReduceConditionalLogic was started on the sets
  condition,          \* GenerateConditionExpansion: its argument
  expansion,          \* GenerateConditionExpansion: its result
  tree,               \* the source tree: the include lines of each file
  seeds,              \* main: the sources GetIncludedSources is called on
  walked,             \* main: the sources GetIncludedSources was already called on
  include_set,        \* GetIncludedSources: include_set (main: sources_to_check)
  stack               \* GetIncludedSources: the calls in progress, innermost last

\* the state of GetIncludedSources
include_vars == <<tree, seeds, walked, include_set, stack>>

vars == <<sets, disjoint_sets, pc, idx, reduced_conditions, pass, condition, expansion,
          include_vars>>

\* no source tree is walked
NoIncludes ==
  /\ tree = << >>
  /\ seeds = {}
  /\ walked = {}
  /\ include_set = {}
  /\ stack = << >>

-----------------------------------------------------------------------------
(* Bounds of the model *)

MaxSets == 3
MaxFiles == 2
MaxBlocks == 2

Files == 1..MaxFiles

-----------------------------------------------------------------------------
(* Condition space *)

\* the attributes, iterated in the order of their declaration
Attr == <<"ARCHITECTURE", "TARGET", "PLATFORM">>

SUPPORT_MATRIX ==
  [ARCHITECTURE |-> {"ia32", "x64", "arm", "arm64", "arm-neon", "mipsel", "mips64el"},
   TARGET       |-> {"Chromium", "Chrome", "ChromiumOS", "ChromeOS"},
   PLATFORM     |-> {"android", "linux", "win", "mac"}]

SourceListCondition(arch, target, plat) ==
  [ARCHITECTURE |-> arch, TARGET |-> target, PLATFORM |-> plat]

SourceSet(sources, conditions) == [sources |-> sources, conditions |-> conditions]

\* Intersect that keeps only its own conditions
IntersectOwnConditions(self, other) ==
  [sources |-> self.sources \cap other.sources, conditions |-> self.conditions]

Intersect(self, other) ==
  SourceSet(self.sources \cap other.sources, self.conditions \cup other.conditions)

\* Difference that leaves the sources as they are
DifferenceKeepsSources(self, other) ==
  [sources |-> self.sources, conditions |-> self.conditions \cap other.conditions]

\* Difference that unites the conditions as Intersect does
DifferenceUnionConditions(self, other) ==
  [sources |-> self.sources \ other.sources,
   conditions |-> self.conditions \cup other.conditions]

Difference(self, other) ==
  SourceSet(self.sources \ other.sources, self.conditions \cap other.conditions)

IsEmpty(self) == Cardinality(self.sources) = 0 \/ Cardinality(self.conditions) = 0

GetAllMatchingConditions(conditions, condition_to_match) ==
  LET attributes_to_check ==
        {a \in DOMAIN condition_to_match : condition_to_match[a] # "*"}
  IN IF attributes_to_check = {}
     THEN conditions
     ELSE {c \in conditions :
             \A a \in attributes_to_check : c[a] = condition_to_match[a]}

\* GetAttributeValuesRange without the filter for platform win
RangeWithoutWinFilter(attribute, cond) ==
  LET values0 == IF cond[attribute] = "*"
                 THEN SUPPORT_MATRIX[attribute]
                 ELSE {cond[attribute]}
      platform == cond.PLATFORM
      values1 == IF attribute = "TARGET" /\ platform # "*" /\ platform # "linux"
                 THEN values0 \ {"ChromiumOS", "ChromeOS"}
                 ELSE values0
  IN IF attribute = "ARCHITECTURE" /\ platform = "mac"
     THEN values1 \cap {"x64"}
     ELSE values1

\* GetAttributeValuesRange without the filter for platform mac
RangeWithoutMacFilter(attribute, cond) ==
  LET values0 == IF cond[attribute] = "*"
                 THEN SUPPORT_MATRIX[attribute]
                 ELSE {cond[attribute]}
      platform == cond.PLATFORM
      values1 == IF attribute = "TARGET" /\ platform # "*" /\ platform # "linux"
                 THEN values0 \ {"ChromiumOS", "ChromeOS"}
                 ELSE values0
  IN IF attribute = "ARCHITECTURE" /\ platform = "win"
     THEN values1 \cap {"ia32", "x64"}
     ELSE values1

GetAttributeValuesRange(attribute, cond) ==
  LET values0 == IF cond[attribute] = "*"
                 THEN SUPPORT_MATRIX[attribute]
                 ELSE {cond[attribute]}
      platform == cond.PLATFORM
      values1 == IF attribute = "TARGET" /\ platform # "*" /\ platform # "linux"
                 THEN values0 \ {"ChromiumOS", "ChromeOS"}
                 ELSE values0
      values2 == IF attribute = "ARCHITECTURE" /\ platform = "win"
                 THEN values1 \cap {"ia32", "x64"}
                 ELSE values1
      values3 == IF attribute = "ARCHITECTURE" /\ platform = "mac"
                 THEN values2 \cap {"x64"}
                 ELSE values2
  IN values3

GenerateConditionExpansion(cond) ==
  LET architectures == GetAttributeValuesRange("ARCHITECTURE", cond)
      targets == GetAttributeValuesRange("TARGET", cond)
      platforms == GetAttributeValuesRange("PLATFORM", cond)
  IN {SourceListCondition(arch, target, plat) :
        arch \in architectures, target \in targets, plat \in platforms}

\* every value an attribute of a condition can hold: the support matrix and the wildcard
AllConditions ==
  {SourceListCondition(a, t, p) :
     a \in SUPPORT_MATRIX.ARCHITECTURE \cup {"*"},
     t \in SUPPORT_MATRIX.TARGET \cup {"*"},
     p \in SUPPORT_MATRIX.PLATFORM \cup {"*"}}

IsConcrete(c) == \A a \in DOMAIN c : c[a] # "*"

-----------------------------------------------------------------------------
(* GenerateConditionExpansion applied to one condition *)

InitExpansion ==
  /\ condition \in AllConditions
  /\ expansion = {}
  /\ pc = "expand"
  /\ sets = << >>
  /\ disjoint_sets = << >>
  /\ idx = 0
  /\ reduced_conditions = {}
  /\ pass = 0
  /\ NoIncludes

Expand ==
  /\ pc = "expand"
  /\ expansion' = GenerateConditionExpansion(condition)
  /\ pc' = "expanded"
  /\ UNCHANGED <<sets, disjoint_sets, idx, reduced_conditions, pass, condition, include_vars>>

NextExpansion == Expand

SpecExpansion == InitExpansion /\ [][NextExpansion]_vars

-----------------------------------------------------------------------------
(* CreatePairwiseDisjointSets *)

\* combinations that pairs only neighbours of the list
AdjacentCombinations(list) ==
  {pair \in (1..Len(list)) \X (1..Len(list)) : pair[2] = pair[1] + 1}

\* itertools.combinations(disjoint_sets, 2): index pairs in lexicographic order
Combinations(list) ==
  {pair \in (1..Len(list)) \X (1..Len(list)) : pair[1] < pair[2]}

\* a scan that compares the first SourceSet with the others only
OverlappingWithFirst(list) ==
  {pair \in Combinations(list) :
     pair[1] = 1 /\ ~IsEmpty(Intersect(list[pair[1]], list[pair[2]]))}

\* the pairs of the scan whose intersection is not empty
Overlapping(list) ==
  {pair \in Combinations(list) : ~IsEmpty(Intersect(list[pair[1]], list[pair[2]]))}

\* the first pair of the scan whose intersection is not empty
FirstOverlapping(list) ==
  CHOOSE pair \in Overlapping(list) :
    \A other \in Overlapping(list) :
      \/ pair[1] < other[1]
      \/ pair[1] = other[1] /\ pair[2] <= other[2]

\* list.index(p): position of the first element equal to p
Index(list, p) ==
  CHOOSE i \in 1..Len(list) : list[i] = p /\ \A k \in 1..(i - 1) : list[k] # p

DeleteAt(list, i) ==
  [k \in 1..(Len(list) - 1) |-> IF k < i THEN list[k] ELSE list[k + 1]]

\* p replaced by its difference, empty or not
UpdateDifferenceKeepsEmpty(list, p, intersection) ==
  [list EXCEPT ![Index(list, p)] = Difference(p, intersection)]

\* one turn of "for p in pair": replace p by its difference, or delete it
UpdateDifference(list, p, intersection) ==
  LET i == Index(list, p)
      difference == Difference(p, intersection)
  IN IF IsEmpty(difference)
     THEN DeleteAt(list, i)
     ELSE [list EXCEPT ![i] = difference]

\* the body of the for loop without the append of the intersection
SplitPairWithoutAppend(list) ==
  LET pair == FirstOverlapping(list)
      p0 == list[pair[1]]
      p1 == list[pair[2]]
      intersection == Intersect(p0, p1)
  IN UpdateDifference(UpdateDifference(list, p0, intersection), p1, intersection)

\* the body of the for loop at the first overlapping pair, up to the break
SplitPair(list) ==
  LET pair == FirstOverlapping(list)
      p0 == list[pair[1]]
      p1 == list[pair[2]]
      intersection == Intersect(p0, p1)
      appended == Append(list, intersection)
  IN UpdateDifference(UpdateDifference(appended, p0, intersection), p1, intersection)

\* the configurations a build directory exists for: main makes one SourceSet of each
InputConditions ==
  {SourceListCondition("x64", "Chromium", "mac"),
   SourceListCondition("x64", "Chrome", "mac"),
   SourceListCondition("x64", "Chromium", "linux"),
   SourceListCondition("arm", "Chromium", "win")}

\* main: one SourceSet per existing build directory, each with its own condition
Init ==
  /\ \E n \in 0..MaxSets :
       \E cs \in [1..n -> InputConditions], fs \in [1..n -> SUBSET Files] :
         /\ \A i, j \in 1..n : i # j => cs[i] # cs[j]
         /\ sets = [k \in 1..n |-> SourceSet(fs[k], {cs[k]})]
  /\ disjoint_sets = sets
  /\ pc = "disjoint"
  /\ idx = 0
  /\ reduced_conditions = {}
  /\ pass = 0
  /\ condition = SourceListCondition("*", "*", "*")
  /\ expansion = {}
  /\ NoIncludes

\* a scan that finds an overlapping pair: split it and restart
SplitStep ==
  /\ pc = "disjoint"
  /\ Overlapping(disjoint_sets) # {}
  /\ disjoint_sets' = SplitPair(disjoint_sets)
  /\ UNCHANGED <<sets, pc, idx, reduced_conditions, pass, condition, expansion, include_vars>>

\* a full scan without overlap: return disjoint_sets; main starts reducing
ReturnDisjoint ==
  /\ pc = "disjoint"
  /\ Overlapping(disjoint_sets) = {}
  /\ pc' = IF Len(disjoint_sets) > 0 THEN "scan" ELSE "done"
  /\ idx' = IF Len(disjoint_sets) > 0 THEN 1 ELSE 0
  /\ pass' = 1
  /\ UNCHANGED <<sets, disjoint_sets, reduced_conditions, condition, expansion, include_vars>>

-----------------------------------------------------------------------------
(* ReduceConditionalLogic *)

ConditionReduction(cond, matches) == [condition |-> cond, matches |-> matches]

\* a new condition that leaves the attribute as it is
NotWildcarded(condition_dict, attribute) == condition_dict

\* condition_dict[attribute] = '*'; SourceListCondition(**condition_dict)
Wildcarded(condition_dict, attribute) == [condition_dict EXCEPT ![attribute] = "*"]

\* "for attribute in Attr" from the k-th attribute on, for one condition: an
\* accepted wildcard stays in condition_dict, a refused one is restored
RECURSIVE ScanAttributes(_, _, _)
ScanAttributes(condition_dict, k, conditions) ==
  IF k > Len(Attr) THEN {}
  ELSE LET new_condition == Wildcarded(condition_dict, Attr[k])
           matches == GetAllMatchingConditions(conditions, new_condition)
       IN IF matches = GenerateConditionExpansion(new_condition)
          THEN {ConditionReduction(new_condition, matches)}
                 \cup ScanAttributes(new_condition, k + 1, conditions)
          ELSE ScanAttributes(condition_dict, k + 1, conditions)

\* "for condition in source_set.conditions": all reductions found
FindReductions(conditions) ==
  UNION {ScanAttributes(c, 1, conditions) : c \in conditions}

\* pairs of which the first shares a condition with the second
SubsumedWhenOverlapping(reductions) ==
  {pair \in reductions \X reductions :
     pair[1] # pair[2] /\ pair[1].matches \cap pair[2].matches # {}}

\* pairs of the subsumption loop of which the first is removed
Subsumed(reductions) ==
  {pair \in reductions \X reductions :
     pair[1] # pair[2] /\ pair[1].matches \subseteq pair[2].matches}

\* a reduction applied without the removal of its matches
ApplyReductionKeepsMatches(conditions, reduction) ==
  conditions \cup {reduction.condition}

\* difference_update(reduction.matches), then add(reduction.condition)
ApplyReduction(conditions, reduction) ==
  (conditions \ reduction.matches) \cup {reduction.condition}

\* a loop that stops after its first reduction
ApplyFirstReduction(conditions, reductions) ==
  IF reductions = {} THEN conditions
  ELSE ApplyReduction(conditions, CHOOSE r \in reductions : TRUE)

\* "for reduction in reduced_conditions"
RECURSIVE ApplyReductions(_, _)
ApplyReductions(conditions, reductions) ==
  IF reductions = {} THEN conditions
  ELSE LET reduction == CHOOSE r \in reductions : TRUE
       IN ApplyReductions(ApplyReduction(conditions, reduction),
                          reductions \ {reduction})

Scan ==
  /\ pc = "scan"
  /\ reduced_conditions' = FindReductions(disjoint_sets[idx].conditions)
  /\ pc' = "subsume"
  /\ UNCHANGED <<sets, disjoint_sets, idx, pass, condition, expansion, include_vars>>

\* one turn of "while did_work" that removes a reduction
Subsume ==
  /\ pc = "subsume"
  /\ \E pair \in Subsumed(reduced_conditions) :
       reduced_conditions' = reduced_conditions \ {pair[1]}
  /\ UNCHANGED <<sets, disjoint_sets, pc, idx, pass, condition, expansion, include_vars>>

\* the last turn of "while did_work", the reductions applied, and main's next set
Apply ==
  /\ pc = "subsume"
  /\ Subsumed(reduced_conditions) = {}
  /\ disjoint_sets' =
       [disjoint_sets EXCEPT ![idx].conditions =
          ApplyReductions(disjoint_sets[idx].conditions, reduced_conditions)]
  /\ IF idx < Len(disjoint_sets)
     THEN idx' = idx + 1 /\ pc' = "scan"
     ELSE idx' = idx /\ pc' = "done"
  /\ UNCHANGED <<sets, reduced_conditions, pass, condition, expansion, include_vars>>

Next == SplitStep \/ ReturnDisjoint \/ Scan \/ Subsume \/ Apply

Spec == Init /\ [][Next]_vars

-----------------------------------------------------------------------------
(* ReduceConditionalLogic applied twice to one SourceSet *)

\* conditions the blocks of a SourceSet under reduction are expanded from
InputPatterns ==
  {c \in {SourceListCondition(a, t, p) :
            a \in {"*", "ia32", "x64", "arm"},
            t \in {"*", "Chromium", "Chrome", "ChromeOS"},
            p \in {"*", "linux", "win", "mac"}} :
     Cardinality({a \in DOMAIN c : c[a] = "*"}) <= 1}

InputBlocks ==
  ({GenerateConditionExpansion(c) : c \in InputPatterns} \ {{}})
    \cup {{c} : c \in {d \in InputPatterns : IsConcrete(d)}}

\* the unions of at most n blocks
RECURSIVE UnionsOfBlocks(_)
UnionsOfBlocks(n) ==
  IF n <= 1 THEN InputBlocks
  ELSE {a \cup b : a \in UnionsOfBlocks(n - 1), b \in InputBlocks}

InputConditionSets == UnionsOfBlocks(MaxBlocks)

InitReduce ==
  /\ \E conditions \in InputConditionSets :
       /\ sets = <<SourceSet({1}, conditions)>>
       /\ disjoint_sets = sets
  /\ pc = "scan"
  /\ idx = 1
  /\ reduced_conditions = {}
  /\ pass = 1
  /\ condition = SourceListCondition("*", "*", "*")
  /\ expansion = {}
  /\ NoIncludes

ReduceAgain ==
  /\ pc = "done"
  /\ pass = 1
  /\ pass' = 2
  /\ idx' = 1
  /\ pc' = "scan"
  /\ UNCHANGED <<sets, disjoint_sets, reduced_conditions, condition, expansion, include_vars>>

NextReduce == Scan \/ Subsume \/ Apply \/ ReduceAgain

SpecReduce == InitReduce /\ [][NextReduce]_vars

-----------------------------------------------------------------------------
(* Properties of CreatePairwiseDisjointSets *)

\* the state in which CreatePairwiseDisjointSets returns disjoint_sets
Returns == pc = "disjoint" /\ Overlapping(disjoint_sets) = {}

AllSources(list) == UNION {list[k].sources : k \in 1..Len(list)}

\* the input conditions whose SourceSet contains file f
Signature(f) == UNION {sets[k].conditions : k \in {i \in 1..Len(sets) : f \in sets[i].sources}}

Holders(f) == {k \in 1..Len(disjoint_sets) : f \in disjoint_sets[k].sources}

\* C1: the list CreatePairwiseDisjointSets returns is pairwise disjoint: no two
\* distinct SourceSets of it share a file.
PairwiseDisjoint ==
  pc # "disjoint" \/ Returns =>
    \A i, j \in 1..Len(disjoint_sets) :
      i # j => disjoint_sets[i].sources \cap disjoint_sets[j].sources = {}

PairwiseDisjointWitness ==
  /\ Returns
  /\ Overlapping(sets) # {}
  /\ Len(disjoint_sets) >= 3

\* C2: in the returned list every file is held by exactly one SourceSet, whose
\* conditions are exactly the input conditions whose SourceSet contained the file.
ExactlyOneHolderWithSignature ==
  Returns =>
    \A f \in AllSources(sets) :
      /\ Cardinality(Holders(f)) = 1
      /\ \A k \in Holders(f) : disjoint_sets[k].conditions = Signature(f)

ExactlyOneHolderWitness ==
  /\ Returns
  /\ \E f, g \in AllSources(sets) :
       /\ Cardinality(Signature(f)) = 1
       /\ Cardinality(Signature(g)) = Len(sets)
       /\ Len(sets) >= 2
       /\ Cardinality(UNION {sets[k].conditions : k \in 1..Len(sets)}) = Len(sets)

\* C3: the files of the working list are the files of the input, after every
\* split step and in the result.
SourcesPreserved == AllSources(disjoint_sets) = AllSources(sets)

SourcesPreservedWitness ==
  /\ pc = "disjoint"
  /\ disjoint_sets # sets
  /\ Overlapping(disjoint_sets) # {}

\* the number of (file, SourceSet) memberships of the working list
RECURSIVE Memberships(_)
Memberships(list) ==
  IF Len(list) = 0 THEN 0
  ELSE Cardinality(Head(list).sources) + Memberships(Tail(list))

\* C4: the fixpoint loop terminates: every split step strictly decreases the
\* number of memberships of the working list, a natural number, so only finitely
\* many split steps occur before a scan finds no overlap.
LoopTerminates ==
  [][pc = "disjoint" /\ pc' = "disjoint" =>
       Memberships(disjoint_sets') < Memberships(disjoint_sets)]_vars

LoopTerminatesWitness ==
  /\ pc = "done"
  /\ Memberships(disjoint_sets) + 2 <= Memberships(sets)

-----------------------------------------------------------------------------
(* Properties of GenerateConditionExpansion and ReduceConditionalLogic *)

NumWildcards(c) == Cardinality({a \in DOMAIN c : c[a] = "*"})

\* the restriction rules, for a concrete condition
SatisfiesRestrictions(c) ==
  /\ c.PLATFORM = "win" => c.ARCHITECTURE \in {"ia32", "x64"}
  /\ c.PLATFORM = "mac" => c.ARCHITECTURE = "x64"
  /\ c.PLATFORM # "linux" => c.TARGET \notin {"ChromiumOS", "ChromeOS"}

\* the SourceSet under reduction, as it is and as it was handed in
Reduced == disjoint_sets[1].conditions
Original == sets[1].conditions

\* the step that applies the reductions of the first call
FirstApply == pass = 1 /\ pc = "subsume" /\ pc' # "subsume"

\* C5 as stated: every generalized condition the reduction introduces has exactly
\* one wildcarded attribute.
ExactlyOneWildcard ==
  pc = "done" /\ pass = 1 =>
    \A c \in Reduced \ Original : NumWildcards(c) = 1

\* C5 as amended: every generalized condition the reduction records or introduces
\* is a concrete condition of the SourceSet with at least one attribute
\* wildcarded; it can have more than one.
AtLeastOneWildcard ==
  pass = 1 =>
    \A r \in reduced_conditions :
      /\ NumWildcards(r.condition) >= 1
      /\ \E c \in Original : \A a \in DOMAIN c : r.condition[a] \in {"*", c[a]}

AtLeastOneWildcardWitness ==
  /\ pc = "done"
  /\ pass = 1
  /\ \E c \in Reduced : NumWildcards(c) = 2

\* C6: for every generalized condition the reduction adds, its expansion is
\* exactly its recorded coverage, all of which were concrete conditions of the
\* SourceSet before and none of which is in the SourceSet afterwards.
ReductionSound ==
  [][FirstApply =>
       \A r \in reduced_conditions :
         /\ r.condition \in disjoint_sets'[1].conditions
         /\ GenerateConditionExpansion(r.condition) = r.matches
         /\ r.matches \subseteq Reduced
         /\ \A m \in r.matches : IsConcrete(m)
         /\ r.matches \cap disjoint_sets'[1].conditions = {}]_vars

ReductionSoundWitness ==
  /\ pc = "done"
  /\ pass = 1
  /\ \E r \in reduced_conditions : Cardinality(r.matches) >= 2
  /\ \E c \in Reduced : IsConcrete(c)

\* C7 as stated: after decomposition and reduction, every input condition c of a
\* file is in the expansion of a condition of the SourceSet that holds the file.
InputConditionExpanded ==
  pc = "done" =>
    \A k \in 1..Len(sets) : \A f \in sets[k].sources : \A c \in sets[k].conditions :
      \E j \in 1..Len(disjoint_sets) :
        /\ f \in disjoint_sets[j].sources
        /\ \E d \in disjoint_sets[j].conditions : c \in GenerateConditionExpansion(d)

\* C7 as amended: after decomposition and reduction, every input condition c of a
\* file is a condition of the SourceSet that holds the file, or is in the
\* expansion of one.
InputConditionCovered ==
  pc = "done" =>
    \A k \in 1..Len(sets) : \A f \in sets[k].sources : \A c \in sets[k].conditions :
      \E j \in 1..Len(disjoint_sets) :
        /\ f \in disjoint_sets[j].sources
        /\ \E d \in disjoint_sets[j].conditions :
             d = c \/ c \in GenerateConditionExpansion(d)

InputConditionCoveredWitness ==
  /\ pc = "done"
  /\ \E k \in 1..Len(sets) : \E f \in sets[k].sources : \E c \in sets[k].conditions :
       \E j \in 1..Len(disjoint_sets) :
         /\ f \in disjoint_sets[j].sources
         /\ c \notin disjoint_sets[j].conditions
         /\ Cardinality(disjoint_sets[j].conditions) = 1
         /\ Len(disjoint_sets) >= 3

\* C8 as stated: every member of an expansion is concrete and satisfies the
\* restriction rules, whatever the condition.
ExpansionRestricted ==
  pc = "expanded" =>
    \A m \in expansion : IsConcrete(m) /\ SatisfiesRestrictions(m)

\* C8 as amended: every member of an expansion is concrete, and satisfies the
\* restriction rules when the platform of the condition is not wildcarded.
ExpansionRestrictedByPlatform ==
  pc = "expanded" =>
    \A m \in expansion :
      /\ IsConcrete(m)
      /\ condition.PLATFORM # "*" => SatisfiesRestrictions(m)

ExpansionRestrictedByPlatformWitness ==
  /\ pc = "expanded"
  /\ condition = SourceListCondition("*", "*", "win")
  /\ Cardinality(expansion) = 4

\* the step that applies the reductions of the second call
SecondApply == pass = 2 /\ pc = "subsume" /\ pc' # "subsume"

\* C9 as stated: a second reduction of a SourceSet whose conditions were all
\* concrete changes nothing.
Idempotent == [][SecondApply => disjoint_sets' = disjoint_sets]_vars

\* C9 as amended: a second reduction changes nothing when the conditions were
\* all concrete and all satisfied the restriction rules.
IdempotentOnRestricted ==
  [][SecondApply /\ (\A c \in Original : SatisfiesRestrictions(c)) =>
       disjoint_sets' = disjoint_sets]_vars

IdempotentOnRestrictedWitness ==
  /\ pc = "done"
  /\ pass = 2
  /\ \A c \in Original : SatisfiesRestrictions(c)
  /\ \E c \in Reduced : IsConcrete(c)
  /\ \E c \in Reduced : NumWildcards(c) = 2

\* the architectures the restriction rules allow on a platform
LegalArchitectures(plat) ==
  IF plat = "win" THEN {"ia32", "x64"}
  ELSE IF plat = "mac" THEN {"x64"}
  ELSE SUPPORT_MATRIX.ARCHITECTURE

\* C10: a SourceSet whose conditions are (a, T, P) for every architecture a legal
\* on P, T and P fixed and legal together, reduces to the one condition ('*', T, P).
AllArchitecturesReduce ==
  pc = "done" /\ pass = 1 =>
    \A t \in SUPPORT_MATRIX.TARGET : \A p \in SUPPORT_MATRIX.PLATFORM :
      /\ p = "linux" \/ t \notin {"ChromiumOS", "ChromeOS"}
      /\ Original = {SourceListCondition(a, t, p) : a \in LegalArchitectures(p)}
      => Reduced = {SourceListCondition("*", t, p)}

AllArchitecturesReduceWitness ==
  /\ pc = "done"
  /\ pass = 1
  /\ Original = {SourceListCondition(a, "Chromium", "linux") :
                   a \in SUPPORT_MATRIX.ARCHITECTURE}
  /\ Reduced = {SourceListCondition("*", "Chromium", "linux")}

-----------------------------------------------------------------------------
(* GetIncludedSources *)

MaxIncludes == 3
MaxPathLen == 6

\* the variables of main that the walk of the includes leaves alone
main_vars == <<sets, disjoint_sets, idx, reduced_conditions, pass, condition, expansion>>

\* the files of source_dir, each a path of components below source_dir; two
\* directories hold a file x.h
SourceFiles == {<<"x.h">>, <<"a", "x.h">>, <<"a", "y.h">>}

\* a line that INCLUDE_REGEX does not match
NoInclude == << >>

\* the lines a file can hold: group(1) of INCLUDE_REGEX, split at the separators
IncludeLines ==
  {NoInclude, <<"x.h">>, <<"a", "y.h">>, <<"..", "a", "y.h">>, <<"config.h">>}

IGNORED_INCLUDE_FILES ==
  {<<"config.h">>,
   <<"libavutil", "avconfig.h">>,
   <<"libavutil", "ffversion.h">>,
   <<"libavcodec", "aacps_tables.h">>,
   <<"libavcodec", "aacps_fixed_tables.h">>,
   <<"libavcodec", "aacsbr_tables.h">>,
   <<"libavcodec", "aac_tables.h">>,
   <<"libavcodec", "cabac_tables.h">>,
   <<"libavcodec", "cbrt_tables.h">>,
   <<"libavcodec", "cbrt_fixed_tables.h">>,
   <<"libavcodec", "mpegaudio_tables.h">>,
   <<"libavcodec", "pcm_tables.h">>,
   <<"libavcodec", "sinewin_tables.h">>,
   <<"libavcodec", "sinewin_fixed_tables.h">>}

\* the file system's reading of a path: ".." leaves the directory reached so
\* far; a path that leaves source_dir names none of its files
RECURSIVE Walk(_, _)
Walk(path, reached) ==
  IF path = << >> THEN reached
  ELSE IF Head(path) = ".."
       THEN IF reached = << >> THEN <<"..">>
            ELSE Walk(Tail(path), SubSeq(reached, 1, Len(reached) - 1))
       ELSE Walk(Tail(path), Append(reached, Head(path)))

\* the file a path names
FileOf(path) == Walk(path, << >>)

\* os.path.isfile: the path names a file, and is no longer than the system allows
isfile(path) == Len(path) <= MaxPathLen /\ FileOf(path) \in SourceFiles

\* os.path.dirname
dirname(path) == SubSeq(path, 1, Len(path) - 1)

\* os.path.join(directory, include_file_path): the components in a row, as written
join(directory, include_file_path) == directory \o include_file_path

\* the trees whose files hold at most n lines in all
RECURSIVE Trees(_)
Trees(n) ==
  IF n = 0 THEN {[f \in SourceFiles |-> << >>]}
  ELSE Trees(n - 1) \cup
       {[t EXCEPT ![f] = Append(t[f], line)] :
          t \in Trees(n - 1), f \in SourceFiles, line \in IncludeLines}

\* main: the sources of the source sets, made absolute, in any order
InitInclude ==
  /\ tree \in Trees(MaxIncludes)
  /\ seeds \in (SUBSET SourceFiles) \ {{}}
  /\ walked = {}
  /\ include_set = {}
  /\ stack = << >>
  /\ pc = "walk"
  /\ sets = << >>
  /\ disjoint_sets = << >>
  /\ idx = 0
  /\ reduced_conditions = {}
  /\ pass = 0
  /\ condition = SourceListCondition("*", "*", "*")
  /\ expansion = {}

\* a call in progress: the file it reads and the number of its next line
Frame(file_path, line) == [file_path |-> file_path, line |-> line]

\* the call that reads: the innermost
Top == stack[Len(stack)]

\* the line the innermost call is at
include_file_path == tree[FileOf(Top.file_path)][Top.line]

\* the innermost call has a line left to read
AtLine == pc = "walk" /\ stack # << >> /\ Top.line <= Len(tree[FileOf(Top.file_path)])

\* os.path.join(current_dir, include_file_path)
include_path_in_current_dir(file_path, line) == join(dirname(file_path), line)

\* os.path.join(source_dir, include_file_path), as a path below source_dir
include_path_in_source_dir(line) == join(<< >>, line)

\* source_dir is looked in before the directory of the including file
ResolveSourceDirFirst(file_path, line) ==
  IF isfile(include_path_in_source_dir(line))
  THEN include_path_in_source_dir(line)
  ELSE IF isfile(include_path_in_current_dir(file_path, line))
       THEN include_path_in_current_dir(file_path, line)
       ELSE << >>

\* the path found for the include of a line of file_path, or '' when neither
\* place holds the file
Resolve(file_path, line) ==
  IF isfile(include_path_in_current_dir(file_path, line))
  THEN include_path_in_current_dir(file_path, line)
  ELSE IF isfile(include_path_in_source_dir(line))
       THEN include_path_in_source_dir(line)
       ELSE << >>

\* the path found for the line the innermost call is at
resolved_include_path == Resolve(Top.file_path, include_file_path)

\* the innermost call moved to its next line
NextLine(calls) == [calls EXCEPT ![Len(calls)].line = @ + 1]

\* the call returns at once for any path of a file that include_set holds
\* under some path
CallOncePerFile(file_path, calls) ==
  IF \E q \in include_set : FileOf(q) = FileOf(file_path)
  THEN include_set' = include_set /\ stack' = calls
  ELSE /\ include_set' = include_set \cup {file_path}
       /\ stack' = Append(calls, Frame(file_path, 1))

\* GetIncludedSources(file_path, ...) called with the calls in progress: it
\* returns at once for a path of include_set, else adds the path and reads the file
Call(file_path, calls) ==
  IF file_path \in include_set
  THEN include_set' = include_set /\ stack' = calls
  ELSE /\ include_set' = include_set \cup {file_path}
       /\ stack' = Append(calls, Frame(file_path, 1))

\* main: GetIncludedSources(source, source_dir, sources_to_check)
CallSeed ==
  /\ pc = "walk"
  /\ stack = << >>
  /\ \E source \in seeds \ walked :
       /\ walked' = walked \cup {source}
       /\ Call(source, stack)
  /\ UNCHANGED <<pc, tree, seeds, main_vars>>

\* a line without a quoted include
SkipLine ==
  /\ AtLine
  /\ include_file_path = NoInclude
  /\ stack' = NextLine(stack)
  /\ UNCHANGED <<pc, tree, seeds, walked, include_set, main_vars>>

\* a quoted include that is found: the recursive call
FollowInclude ==
  /\ AtLine
  /\ include_file_path # NoInclude
  /\ resolved_include_path # << >>
  /\ Call(resolved_include_path, NextLine(stack))
  /\ UNCHANGED <<pc, tree, seeds, walked, main_vars>>

\* a quoted include that is not found and is in IGNORED_INCLUDE_FILES
IgnoreInclude ==
  /\ AtLine
  /\ include_file_path # NoInclude
  /\ resolved_include_path = << >>
  /\ include_file_path \in IGNORED_INCLUDE_FILES
  /\ stack' = NextLine(stack)
  /\ UNCHANGED <<pc, tree, seeds, walked, include_set, main_vars>>

\* an include that is not found is passed over, whatever it names
FailIncludeSkips ==
  /\ AtLine
  /\ include_file_path # NoInclude
  /\ resolved_include_path = << >>
  /\ include_file_path \notin IGNORED_INCLUDE_FILES
  /\ stack' = NextLine(stack)
  /\ UNCHANGED <<pc, tree, seeds, walked, include_set, main_vars>>

\* a quoted include that is not found and is not ignored: exit
FailInclude ==
  /\ AtLine
  /\ include_file_path # NoInclude
  /\ resolved_include_path = << >>
  /\ include_file_path \notin IGNORED_INCLUDE_FILES
  /\ pc' = "fatal"
  /\ UNCHANGED <<tree, seeds, walked, include_set, stack, main_vars>>

\* the end of the file: the call returns
ReturnInclude ==
  /\ pc = "walk"
  /\ stack # << >>
  /\ Top.line > Len(tree[FileOf(Top.file_path)])
  /\ stack' = SubSeq(stack, 1, Len(stack) - 1)
  /\ UNCHANGED <<pc, tree, seeds, walked, include_set, main_vars>>

\* main: every source was walked
WalkDone ==
  /\ pc = "walk"
  /\ stack = << >>
  /\ walked = seeds
  /\ pc' = "done"
  /\ UNCHANGED <<tree, seeds, walked, include_set, stack, main_vars>>

NextInclude ==
  CallSeed \/ SkipLine \/ FollowInclude \/ IgnoreInclude \/ FailInclude
    \/ ReturnInclude \/ WalkDone

SpecInclude == InitInclude /\ [][NextInclude]_vars

-----------------------------------------------------------------------------
(* Properties of GetIncludedSources *)

\* the lines of the file a path names
LinesOf(file_path) == {tree[FileOf(file_path)][i] : i \in DOMAIN tree[FileOf(file_path)]}

\* the paths the quoted includes of the file at file_path are found at
IncludesOf(file_path) ==
  {Resolve(file_path, line) : line \in LinesOf(file_path) \ {NoInclude}} \ {<< >>}

\* the paths reached from the paths of S, whatever the order
RECURSIVE Closure(_)
Closure(S) ==
  LET T == S \cup UNION {IncludesOf(file_path) : file_path \in S}
  IN  IF T = S THEN S ELSE Closure(T)

\* every quoted include of the tree names a file that exists
AllIncludesResolve ==
  \A f \in SourceFiles : \A line \in LinesOf(f) \ {NoInclude} : Resolve(f, line) # << >>

\* the walk of every seed returned
Walked == pc = "done"

\* C11: when the quoted includes all resolve, the walk of the seeds returns
\* with include_set holding the files reached from the seeds, and no file was
\* read twice: a file is read when its path enters include_set, so no two
\* paths of include_set name the same file.
EachFileReadOnce ==
  (Walked /\ AllIncludesResolve) =>
    /\ \A p, q \in include_set : FileOf(p) = FileOf(q) => p = q
    /\ {FileOf(p) : p \in include_set} = {FileOf(p) : p \in Closure(seeds)}

\* the innermost call is at a quoted include found neither in the directory
\* of the including file nor in source_dir
AtUnresolved == AtLine /\ include_file_path # NoInclude /\ resolved_include_path = << >>

\* C12: a quoted include found in neither place ends the run with a fatal
\* error when it is not in IGNORED_INCLUDE_FILES; when it is in the list,
\* nothing enters include_set and the walk goes on with the next line.
UnresolvedIncludeHandled ==
  [][AtUnresolved =>
       IF include_file_path \in IGNORED_INCLUDE_FILES
       THEN include_set' = include_set /\ stack' = NextLine(stack) /\ pc' = "walk"
       ELSE pc' = "fatal" /\ include_set' = include_set]_vars

\* an ignored include was passed over and the walk went on to the end
UnresolvedIncludeHandledWitness ==
  /\ Walked
  /\ \E p \in include_set :
       /\ Len(tree[FileOf(p)]) >= 2
       /\ tree[FileOf(p)][1] \in IGNORED_INCLUDE_FILES
       /\ Resolve(p, tree[FileOf(p)][2]) \in include_set

\* some path reached from the seeds holds a quoted include that is found in
\* neither place and is not in IGNORED_INCLUDE_FILES
FatallyUnresolved ==
  \E p \in Closure(seeds) : \E line \in LinesOf(p) \ {NoInclude} :
    Resolve(p, line) = << >> /\ line \notin IGNORED_INCLUDE_FILES

\* C13: whatever the order in which the seeds are walked and the lines of a
\* file are followed, the walk ends in a fatal error exactly when some include
\* reached from the seeds is fatally unresolved, and otherwise leaves in
\* include_set the paths reached from the seeds, a set that no order enters.
IncludeSetOrderIndependent ==
  /\ Walked => include_set = Closure(seeds) /\ ~FatallyUnresolved
  /\ pc = "fatal" => FatallyUnresolved

\* two seeds were walked, one of them reached from the other under another
\* path, and a file with two quoted includes was read
IncludeSetOrderIndependentWitness ==
  /\ Walked
  /\ Cardinality(seeds) >= 2
  /\ \E p \in include_set \ seeds : FileOf(p) \in seeds
  /\ \E p \in include_set : Cardinality(IncludesOf(p)) >= 2

\* the two places the include of the line read is looked for in
InCurrentDir == include_path_in_current_dir(Top.file_path, include_file_path)
InSourceDir == include_path_in_source_dir(include_file_path)

\* C14: a quoted include that names a file in the directory of the including
\* file is added to include_set and walked under that path, and the path of
\* source_dir does not enter include_set at this step even when it names a
\* file too; the path of source_dir is added and walked only when the
\* directory of the including file holds no such file.
CurrentDirFirst ==
  [][(AtLine /\ include_file_path # NoInclude) =>
       /\ isfile(InCurrentDir) =>
            /\ include_set' = include_set \cup {InCurrentDir}
            /\ InCurrentDir \notin include_set =>
                 stack' = Append(NextLine(stack), Frame(InCurrentDir, 1))
       /\ (~isfile(InCurrentDir) /\ isfile(InSourceDir)) =>
            /\ include_set' = include_set \cup {InSourceDir}
            /\ InSourceDir \notin include_set =>
                 stack' = Append(NextLine(stack), Frame(InSourceDir, 1))]_vars

\* a/y.h includes "x.h", a name of a file of its directory and of a file of
\* source_dir: a/x.h is being read and x.h is not in include_set
CurrentDirFirstWitness ==
  /\ Len(stack) >= 2
  /\ stack[Len(stack) - 1].file_path = <<"a", "y.h">>
  /\ tree[<<"a", "y.h">>][stack[Len(stack) - 1].line - 1] = <<"x.h">>
  /\ Top.file_path = <<"a", "x.h">>
  /\ <<"x.h">> \notin include_set

-----------------------------------------------------------------------------
(* Properties of the subsumption loop of ReduceConditionalLogic *)

\* the step that ends the subsumption loop and applies the survivors
ApplySurvivors == pc = "subsume" /\ pc' # "subsume"

\* the reductions recorded before the subsumption loop
Candidates == FindReductions(disjoint_sets[idx].conditions)

\* C15: when the subsumption loop ends, no surviving reduction's coverage is a
\* subset of another survivor's, the coverage of every reduction recorded is
\* contained in the coverage of some survivor, and no condition covered by a
\* recorded reduction is in the SourceSet once the survivors are applied.
SurvivorsCoverCandidates ==
  [][ApplySurvivors =>
       /\ reduced_conditions \subseteq Candidates
       /\ \A r1, r2 \in reduced_conditions :
            r1 # r2 => ~(r1.matches \subseteq r2.matches)
       /\ \A c \in Candidates :
            /\ \E r \in reduced_conditions : c.matches \subseteq r.matches
            /\ c.matches \cap disjoint_sets'[idx].conditions = {}]_vars

\* the first call ended with two survivors and a discarded reduction
SurvivorsCoverCandidatesWitness ==
  /\ pc = "done"
  /\ pass = 1
  /\ Cardinality(reduced_conditions) >= 2
  /\ FindReductions(Original) \ reduced_conditions # {}

-----------------------------------------------------------------------------
(* Properties of the working list of CreatePairwiseDisjointSets *)

\* every SourceSet handed to CreatePairwiseDisjointSets has a file and a condition
InputsNonEmpty == \A k \in 1..Len(sets) : ~IsEmpty(sets[k])

\* C16: when no input SourceSet is empty, no SourceSet of the working list is
\* empty after any split step, nor is any SourceSet of the list returned.
NeverEmpty ==
  InputsNonEmpty => \A k \in 1..Len(disjoint_sets) : ~IsEmpty(disjoint_sets[k])

\* a list of non-empty SourceSets was split, an empty difference was dropped,
\* and the list was returned
NeverEmptyWitness ==
  /\ Returns
  /\ InputsNonEmpty
  /\ Len(sets) >= 2
  /\ disjoint_sets # sets
  /\ Len(disjoint_sets) <= Len(sets)

\* the members of a list, in no order
Members(list) == {list[k] : k \in 1..Len(list)}

\* the files of the input grouped by the conditions they are built under, and
\* the input SourceSets without files, which no split touches
GroupedBySignature ==
  {SourceSet({g \in AllSources(sets) : Signature(g) = Signature(f)}, Signature(f)) :
     f \in AllSources(sets)}
    \cup {s \in Members(sets) : s.sources = {}}

\* C17: for input SourceSets each tagged with its own concrete condition,
\* handed over in any order, the list returned holds, once each, the
\* SourceSets that group the files of one condition signature: a collection
\* the order of the input does not enter.
ResultOrderIndependent ==
  Returns =>
    /\ Members(disjoint_sets) = GroupedBySignature
    /\ Cardinality(Members(disjoint_sets)) = Len(disjoint_sets)

\* three SourceSets were split into SourceSets of which one holds two files
\* of one signature of two conditions
ResultOrderIndependentWitness ==
  /\ Returns
  /\ Len(sets) = 3
  /\ disjoint_sets # sets
  /\ \E k \in 1..Len(disjoint_sets) :
       /\ Cardinality(disjoint_sets[k].sources) = 2
       /\ Cardinality(disjoint_sets[k].conditions) = 2

====
